---- MODULE Spec2Model ----
(***************************************************************************)
(* Model of tools/DataInterpreter.py: the DataInterpreter class that       *)
(* filters a table of restaurant listings and derives aggregates from it.  *)
(*                                                                         *)
(* A DataFrame is a sequence of entries [label, row]: the label is the     *)
(* pandas index label of the row, the position in the sequence is its      *)
(* positional index.  Text is a sequence of one-character strings.  A cell *)
(* that may be missing is NA or Some(v).                                   *)
(***************************************************************************)
EXTENDS Integers, Sequences, FiniteSets, TLC

VARIABLES pc, raw0, dataset_raw, dataset, call

vars == <<pc, raw0, dataset_raw, dataset, call>>

\* ------------------------------------------------------------------ bounds
MaxRows == 3
MaxEmailLen == 4
MaxN == 4

\* ------------------------------------------------------------- cell values
NA == [na |-> TRUE]
Some(v) == [na |-> FALSE, v |-> v]
isna(x) == x.na

\* Python numbers and None, as they occur in an opening_hours_span dict
None == [t |-> "None"]
I(n) == [t |-> "int", v |-> n]
F(n) == [t |-> "float", v |-> n]

NotFound == "Not found"

\* the hard-coded number of columns other than name, ratings, review_count
NumIndicColumns == 12
\* of these, the columns the model does not keep cell by cell
NumOtherColumns == NumIndicColumns - 3

\* --------------------------------------------------------------- sequences
RECURSIVE SeqsUpTo(_, _)
SeqsUpTo(S, n) ==
  IF n = 0 THEN {<<>>}
  ELSE LET shorter == SeqsUpTo(S, n - 1)
       IN shorter \cup {Append(s, x) : s \in {t \in shorter : Len(t) = n - 1}, x \in S}

Min2(a, b) == IF a < b THEN a ELSE b

\* -------------------------------------------------------------- DataFrame
\* a freshly compiled table: labels 0..n-1 in order (RangeIndex)
FrameOf(rows) == [k \in 1..Len(rows) |-> [label |-> k - 1, row |-> rows[k]]]

Labels(frame) == {frame[k].label : k \in 1..Len(frame)}

\* dataset.loc[i, ...] / dataset.review_count[i]: label-based lookup
RowAt(frame, i) == (CHOOSE k \in 1..Len(frame) : frame[k].label = i)

\* dataset.drop(i, inplace=True): removes the entry labelled i, keeps the
\* labels of the others
RECURSIVE Drop(_, _)
Drop(frame, i) ==
  IF frame = <<>> THEN <<>>
  ELSE (IF Head(frame).label # i THEN <<Head(frame)>> ELSE <<>>) \o Drop(Tail(frame), i)

\* sum(pd.isna(dataset.loc[i, indic]))
B2N(b) == IF b THEN 1 ELSE 0
NaCount(row) ==
  B2N(isna(row.district)) + B2N(isna(row.opening_hours_span))
    + B2N(isna(row.email_address)) + row.others_na

\* the test without its review_count conjunct
IsEmptyObservationAnyReviews(row) == NaCount(row) = NumIndicColumns

IsEmptyObservation(row) == (NaCount(row) = NumIndicColumns) /\ (row.review_count = 0)

\* the loop of removeEmptyObservations over i in range(len(dataset)), the
\* length taken once before the loop
RECURSIVE RemoveLoop(_, _, _)
RemoveLoop(frame, i, n) ==
  IF i = n THEN [raised |-> "none", frame |-> frame]
  ELSE IF i \notin Labels(frame) THEN [raised |-> "KeyError", frame |-> frame]
  ELSE IF IsEmptyObservation(frame[RowAt(frame, i)].row)
       THEN RemoveLoop(Drop(frame, i), i + 1, n)
       ELSE RemoveLoop(frame, i + 1, n)

removeEmptyObservations(frame) == RemoveLoop(frame, 0, Len(frame))

\* ------------------------------------------------------- getDistrictCounts
\* dataset.district.value_counts(): occurrences of each non-missing value
value_counts(frame) ==
  LET present == {k \in 1..Len(frame) : ~isna(frame[k].row.district)}
      values == {frame[k].row.district.v : k \in present}
  IN [d \in values |-> Cardinality({k \in present : frame[k].row.district.v = d})]

\* Series.drop(label, inplace=True): a label that is not in the index raises
getDistrictCounts(frame) ==
  LET district_counts == value_counts(frame)
  IN IF NotFound \notin DOMAIN district_counts
     THEN [raised |-> "KeyError"]
     ELSE [raised |-> "none",
           ret |-> [d \in (DOMAIN district_counts) \ {NotFound} |-> district_counts[d]]]

\* ------------------------------------- getArrayOfSumsOfOpeningHoursSpans
NaN == [t |-> "nan"]

\* filter(None, ...): keeps the values that are true in a condition
Truthy(x) == x.t # "None" /\ x.v # 0

\* sum(...): starts from the int 0; the result is a float once a float was added
RECURSIVE PySum(_, _)
PySum(values, acc) ==
  IF values = <<>> THEN acc
  ELSE LET x == Head(values)
       IN IF ~Truthy(x) THEN PySum(Tail(values), acc)
          ELSE PySum(Tail(values),
                     [t |-> IF acc.t = "float" \/ x.t = "float" THEN "float" ELSE "int",
                      v |-> acc.v + x.v])

SpanValue(span) == IF isna(span) THEN NaN ELSE PySum(span.v, I(0))

list_of_sums(frame) == [k \in 1..Len(frame) |-> SpanValue(frame[k].row.opening_hours_span)]

\* np.array(list): an empty list gives float64, a list of Python ints int64,
\* a list with a float (NaN included) float64
DtypeOf(list) ==
  IF list # <<>> /\ \A k \in 1..Len(list) : list[k].t = "int" THEN "int64" ELSE "float64"

AsFloat(x) == IF x.t = "nan" THEN NaN ELSE F(x.v)

\* array[array == 0] = np.nan: the NaN is first converted to the dtype of the
\* array, which raises for an integer array
getArrayOfSumsOfOpeningHoursSpans(frame) ==
  LET list == list_of_sums(frame)
  IN IF DtypeOf(list) = "int64"
     THEN [raised |-> "ValueError"]
     ELSE [raised |-> "none",
           ret |-> [k \in 1..Len(list) |->
                      IF list[k].t # "nan" /\ list[k].v = 0 THEN NaN ELSE AsFloat(list[k])]]

\* ------------------------------------------------ getEmailProvidersCounts
NoMatch == [found |-> FALSE]

\* the last position the greedy .* can reach from position p: the end of the
\* line, since . matches every character but a line break
RECURSIVE LineEnd(_, _)
LineEnd(email, p) ==
  IF p < Len(email) /\ email[p + 1] # "\n" THEN LineEnd(email, p + 1) ELSE p

\* the match a non-greedy '@.*?\.' would give at position p
MatchAtLazy(email, p) ==
  IF email[p] # "@" THEN NoMatch
  ELSE LET dots == {q \in (p + 1)..LineEnd(email, p) : email[q] = "."}
       IN IF dots = {} THEN NoMatch
          ELSE LET q == CHOOSE d \in dots : \A e \in dots : d <= e
               IN [found |-> TRUE, value |-> SubSeq(email, p, q)]

\* the match of '@.*\.' that starts at position p, if there is one
MatchAt(email, p) ==
  IF email[p] # "@" THEN NoMatch
  ELSE LET dots == {q \in (p + 1)..LineEnd(email, p) : email[q] = "."}
       IN IF dots = {} THEN NoMatch
          ELSE LET q == CHOOSE d \in dots : \A e \in dots : e <= d
               IN [found |-> TRUE, value |-> SubSeq(email, p, q)]

\* re.search('@.*\.', email): the match at the leftmost position that has one
RECURSIVE SearchFrom(_, _)
SearchFrom(email, p) ==
  IF p > Len(email) THEN NoMatch
  ELSE IF MatchAt(email, p).found THEN MatchAt(email, p)
  ELSE SearchFrom(email, p + 1)

re_search(email) == SearchFrom(email, 1)

\* value[1:len(value)-1]
Provider(value) == SubSeq(value, 2, Len(value) - 1)

\* the loop over dataset.email_address; .group(0) on a failed search raises
\* AttributeError, which the except ValueError clause does not catch
RECURSIVE CollectProviders(_, _)
CollectProviders(frame, email_providers) ==
  IF frame = <<>> THEN [raised |-> "none", email_providers |-> email_providers]
  ELSE LET email == Head(frame).row.email_address
       IN IF isna(email) THEN CollectProviders(Tail(frame), email_providers)
          ELSE IF ~re_search(email.v).found
               THEN [raised |-> "AttributeError", email_providers |-> email_providers]
               ELSE CollectProviders(Tail(frame),
                      Append(email_providers, Provider(re_search(email.v).value)))

Keys(items) == {items[k][1] : k \in 1..Len(items)}

\* Counter(list): items <<key, count>> in the order of first occurrence
RECURSIVE Counter(_, _)
Counter(list, items) ==
  IF list = <<>> THEN items
  ELSE LET x == Head(list)
       IN Counter(Tail(list),
            IF x \in Keys(items)
            THEN [k \in 1..Len(items) |->
                    IF items[k][1] = x THEN <<x, items[k][2] + 1>> ELSE items[k]]
            ELSE Append(items, <<x, 1>>))

OwnDomain == <<"O", "w", "n", " ", "d", "o", "m", "a", "i", "n">>

\* the count taken over every provider instead of the providers seen once
CountAll(items) == Len(items)

\* list(counts.values()).count(1)
CountOnes(items) == Cardinality({k \in 1..Len(items) : items[k][2] = 1})

\* counts[key] = n: replaces the value of an existing key in place, else
\* appends the key
SetItem(items, key, n) ==
  IF key \in Keys(items)
  THEN [k \in 1..Len(items) |-> IF items[k][1] = key THEN <<key, n>> ELSE items[k]]
  ELSE Append(items, <<key, n>>)

\* sorted(items, key=lambda x: x[1]): stable, ascending by count
RECURSIVE InsertByCount(_, _)
InsertByCount(sorted, x) ==
  IF sorted = <<>> THEN <<x>>
  ELSE IF Head(sorted)[2] <= x[2] THEN <<Head(sorted)>> \o InsertByCount(Tail(sorted), x)
  ELSE <<x>> \o sorted

RECURSIVE SortByCount(_, _)
SortByCount(items, sorted) ==
  IF items = <<>> THEN sorted
  ELSE SortByCount(Tail(items), InsertByCount(sorted, Head(items)))

getEmailProvidersCounts(frame) ==
  LET c == CollectProviders(frame, <<>>)
  IN IF c.raised # "none" THEN [raised |-> c.raised, email_providers |-> c.email_providers]
     ELSE LET email_providers_counts == Counter(c.email_providers, <<>>)
              with_own == SetItem(email_providers_counts, OwnDomain,
                                  CountOnes(email_providers_counts))
          IN [raised |-> "none", email_providers |-> c.email_providers,
              ret |-> SortByCount(with_own, <<>>)]

\* ---------------------------------------------------------------- showRows
Digits == <<"0", "1", "2", "3", "4", "5", "6", "7", "8", "9">>
IsDigit(c) == \E k \in 1..10 : Digits[k] = c
DigitVal(c) == (CHOOSE k \in 1..10 : Digits[k] = c) - 1

RECURSIVE DigitsVal(_, _)
DigitsVal(s, acc) ==
  IF s = <<>> THEN acc ELSE DigitsVal(Tail(s), 10 * acc + DigitVal(Head(s)))

\* int(text): an optional sign, then decimal digits only
ParseInt(s) ==
  LET signed == s # <<>> /\ Head(s) \in {"+", "-"}
      body == IF signed THEN Tail(s) ELSE s
  IN IF body = <<>> \/ \E k \in 1..Len(body) : ~IsDigit(body[k])
     THEN [ok |-> FALSE]
     ELSE [ok |-> TRUE,
           v |-> IF signed /\ Head(s) = "-" THEN 0 - DigitsVal(body, 0) ELSE DigitsVal(body, 0)]

\* a float is kept as twice its value, so that 2.5 is [t |-> "float", twice |-> 5]
Float2(twice) == [t |-> "float", twice |-> twice]
Str(s) == [t |-> "str", s |-> s]

\* int(x): an int is kept, a float is truncated toward zero, text is parsed,
\* None is a TypeError
PyInt(x) ==
  CASE x.t = "int" -> [ok |-> TRUE, v |-> x.v]
    [] x.t = "float" -> [ok |-> TRUE,
                         v |-> IF x.twice >= 0 THEN x.twice \div 2 ELSE 0 - ((0 - x.twice) \div 2)]
    [] x.t = "str" -> ParseInt(x.s)
    [] OTHER -> [ok |-> FALSE]

\* DataFrame.head(n) and DataFrame.tail(n) for n >= 0
head(frame, n) == SubSeq(frame, 1, Min2(n, Len(frame)))
tail(frame, n) == SubSeq(frame, Len(frame) - Min2(n, Len(frame)) + 1, Len(frame))

Abs(n) == IF n < 0 THEN 0 - n ELSE n

showRows(frame, no_of_rows) ==
  LET n == PyInt(no_of_rows)
  IN IF ~n.ok THEN [raised |-> "ValueError"]
     ELSE [raised |-> "none",
           ret |-> IF n.v >= 0 THEN head(frame, n.v) ELSE tail(frame, Abs(n.v))]

RowCounts ==
  {I(n) : n \in (0 - MaxN)..MaxN}
    \cup {Float2(5), Float2(0 - 3), Float2(4)}
    \cup {Str(<<"3">>), Str(<<"-", "2">>), Str(<<"2", ".", "5">>), Str(<<"a", "b", "c">>),
          Str(<<>>)}
    \cup {None}

\* ------------------------------------------------ interpretReviewsAndRatings
RECURSIVE SeqSum(_)
SeqSum(s) == IF s = <<>> THEN 0 ELSE Head(s) + SeqSum(Tail(s))

SeqMin(s) == CHOOSE x \in {s[k] : k \in 1..Len(s)} : \A k \in 1..Len(s) : x <= s[k]
SeqMax(s) == CHOOSE x \in {s[k] : k \in 1..Len(s)} : \A k \in 1..Len(s) : s[k] <= x

\* np.sum(column == x)
CountEqual(s, x) == Cardinality({k \in 1..Len(s) : s[k] = x})

review_counts(frame) == [k \in 1..Len(frame) |-> frame[k].row.review_count]
ratings(frame) == [k \in 1..Len(frame) |-> frame[k].row.ratings]

\* self.dataset.ratings[self.dataset.review_count != 0]
RECURSIVE available_ratings(_)
available_ratings(frame) ==
  IF frame = <<>> THEN <<>>
  ELSE (IF Head(frame).row.review_count # 0 THEN <<Head(frame).row.ratings>> ELSE <<>>)
         \o available_ratings(Tail(frame))

\* np.around(np.mean(values), 2), in hundredths, halves to the even neighbour;
\* the mean of no value is NaN
MeanHundredths(values) ==
  IF values = <<>> THEN NaN
  ELSE LET n == Len(values)
           q == (100 * SeqSum(values)) \div n
           r == (100 * SeqSum(values)) % n
       IN I(IF 2 * r < n THEN q
            ELSE IF 2 * r > n THEN q + 1
            ELSE IF q % 2 = 0 THEN q ELSE q + 1)

\* np.sum(self.dataset.ratings == x): taken over every row of the table
Ties(frame, x) == CountEqual(ratings(frame), x)

\* the lines printed, in order; max() and min() of an empty column raise
\* ValueError after the lines before them were printed
interpretReviewsAndRatings(frame, plot_hist) ==
  LET line220 == [reviewed |-> CountEqual([k \in 1..Len(frame) |->
                                             frame[k].row.review_count # 0], TRUE)]
      available == available_ratings(frame)
  IN IF frame = <<>> THEN [raised |-> "ValueError"] @@ line220
     ELSE LET line221 == [max_reviews |-> SeqMax(review_counts(frame)),
                          max_reviews_count |->
                            CountEqual(review_counts(frame), SeqMax(review_counts(frame)))]
              line223 == [mean |-> MeanHundredths(available)]
          IN IF available = <<>>
             THEN [raised |-> "ValueError"] @@ line220 @@ line221 @@ line223
             ELSE [raised |-> "none",
                   lowest |-> SeqMin(available),
                   lowest_count |-> Ties(frame, SeqMin(available)),
                   highest |-> SeqMax(available),
                   highest_count |-> Ties(frame, SeqMax(available)),
                   hist |-> IF plot_hist THEN Some(available) ELSE NA]
                    @@ line220 @@ line221 @@ line223

\* ----------------------------------------------------------------- inputs
Email_ab == <<"a", "@", "b", ".", "c">>
Email_db == <<"d", "@", "b", ".", "c">>
Email_ac == <<"a", "@", "c", ".", "c">>
Email_nomatch == <<"a", "b">>

Row(rc, d, span, email, others) ==
  [review_count |-> rc, district |-> d, opening_hours_span |-> span,
   email_address |-> email, others_na |-> others, ratings |-> 0]

\* a row with a rating
RowRated(rc, rating) == [Row(rc, Some(NotFound), NA, NA, 0) EXCEPT !.ratings = rating]

\* rows that differ in what the filter looks at
RowsFilter ==
  {Row(rc, NA, NA, NA, NumOtherColumns) : rc \in {0, 2}}
    \cup {Row(rc, Some("Praha 1"), NA, NA, NumOtherColumns) : rc \in {0, 2}}
    \cup {Row(rc, Some(NotFound), Some(<<I(60)>>), Some(Email_ab), 0) : rc \in {0, 2}}

\* rows that differ in the district
RowsDistrict ==
  {Row(1, d, NA, NA, 0) : d \in {NA, Some(NotFound), Some("Praha 1"), Some("Praha 2")}}

\* rows that differ in the per-day durations
SpanSamples ==
  {NA, Some(<<>>), Some(<<None, None>>), Some(<<I(0), None>>), Some(<<I(60), None>>),
   Some(<<I(60), I(30)>>), Some(<<F(90), None>>)}

RowsHours == {Row(1, Some(NotFound), s, NA, 0) : s \in SpanSamples}

\* rows that differ in the email address
EmailSamples == {NA, Some(Email_ab), Some(Email_db), Some(Email_ac), Some(Email_nomatch)}

RowsEmail == {Row(1, Some(NotFound), NA, e, 0) : e \in EmailSamples}

\* rows that differ in the reviews and the rating
RowsRatings == {RowRated(rc, rating) : rc \in {0, 3}, rating \in {0, 45, 80}}

Chars == {"a", "@", ".", "\n"}

RowsAnyEmail == {Row(1, Some(NotFound), NA, Some(e), 0) : e \in SeqsUpTo(Chars, MaxEmailLen)}

Tables ==
  SeqsUpTo(RowsFilter, MaxRows) \cup SeqsUpTo(RowsDistrict, MaxRows)
    \cup SeqsUpTo(RowsHours, MaxRows) \cup SeqsUpTo(RowsEmail, MaxRows)
    \cup SeqsUpTo(RowsAnyEmail, 1) \cup SeqsUpTo(RowsRatings, MaxRows)

NoCall == [method |-> "none"]

\* ------------------------------------------------------------------ state
Init ==
  /\ pc = "start"
  /\ raw0 \in {FrameOf(t) : t \in Tables}
  /\ dataset_raw = <<>>
  /\ dataset = <<>>
  /\ call = NoCall

\* __init__: dataset_raw and dataset name the caller's DataFrame object, which
\* removeEmptyObservations changes in place and returns
Construct ==
  /\ pc = "start"
  /\ LET r == removeEmptyObservations(raw0)
     IN /\ dataset_raw' = r.frame
        /\ dataset' = r.frame
        /\ pc' = IF r.raised = "none" THEN "constructed" ELSE "raised"
        /\ call' = [method |-> "__init__", raised |-> r.raised]
  /\ UNCHANGED raw0

\* a later call of removeEmptyObservations on the object's table
RemoveEmptyObservations ==
  /\ pc = "constructed"
  /\ LET r == removeEmptyObservations(dataset)
     IN /\ dataset' = r.frame
        /\ dataset_raw' = r.frame
        /\ call' = [method |-> "removeEmptyObservations", arg |-> dataset,
                    raised |-> r.raised]
  /\ UNCHANGED <<pc, raw0>>

GetDistrictCounts ==
  /\ pc = "constructed"
  /\ call' = [method |-> "getDistrictCounts"] @@ getDistrictCounts(dataset)
  /\ UNCHANGED <<pc, raw0, dataset_raw, dataset>>

GetArrayOfSumsOfOpeningHoursSpans ==
  /\ pc = "constructed"
  /\ call' = [method |-> "getArrayOfSumsOfOpeningHoursSpans"]
               @@ getArrayOfSumsOfOpeningHoursSpans(dataset)
  /\ UNCHANGED <<pc, raw0, dataset_raw, dataset>>

GetEmailProvidersCounts ==
  /\ pc = "constructed"
  /\ call' = [method |-> "getEmailProvidersCounts"] @@ getEmailProvidersCounts(dataset)
  /\ UNCHANGED <<pc, raw0, dataset_raw, dataset>>

ShowRows ==
  /\ pc = "constructed"
  /\ \E no_of_rows \in RowCounts :
       call' = [method |-> "showRows", arg |-> no_of_rows] @@ showRows(dataset, no_of_rows)
  /\ UNCHANGED <<pc, raw0, dataset_raw, dataset>>

InterpretReviewsAndRatings ==
  /\ pc = "constructed"
  /\ \E plot_hist \in BOOLEAN :
       call' = [method |-> "interpretReviewsAndRatings", arg |-> plot_hist]
                 @@ interpretReviewsAndRatings(dataset, plot_hist)
  /\ UNCHANGED <<pc, raw0, dataset_raw, dataset>>

Next ==
  \/ Construct
  \/ RemoveEmptyObservations
  \/ GetDistrictCounts
  \/ GetArrayOfSumsOfOpeningHoursSpans
  \/ GetEmailProvidersCounts
  \/ ShowRows
  \/ InterpretReviewsAndRatings

Spec == Init /\ [][Next]_vars

\* ================================================================ claims
AfterInit == pc = "constructed" /\ call.method = "__init__"

\* every field other than name, ratings and review_count is absent
AllOtherFieldsAbsent(row) ==
  /\ isna(row.district)
  /\ isna(row.opening_hours_span)
  /\ isna(row.email_address)
  /\ row.others_na = NumOtherColumns

RECURSIVE WithoutEmptyRows(_)
WithoutEmptyRows(frame) ==
  IF frame = <<>> THEN <<>>
  ELSE (IF AllOtherFieldsAbsent(Head(frame).row) /\ Head(frame).row.review_count = 0
        THEN <<>> ELSE <<Head(frame)>>) \o WithoutEmptyRows(Tail(frame))

\* C1: filtering a raw table removes exactly the rows whose fields other than
\* name, ratings and review_count are all absent and whose review_count is 0;
\* the other rows are kept, in their original order.
C1_RemovesExactlyEmptyRows ==
  AfterInit => call.raised = "none" /\ dataset = WithoutEmptyRows(raw0)

\* a row without reviews was removed, and a row with reviews and nothing else
\* known was kept behind a kept row
C1_Witness ==
  /\ AfterInit
  /\ Len(dataset) >= 2
  /\ Len(dataset) < Len(raw0)
  /\ \E k \in 1..Len(dataset) :
       AllOtherFieldsAbsent(dataset[k].row) /\ dataset[k].row.review_count > 0

\* C2: filtering the filtered table again completes and gives the same table.
C2_FilterIdempotent ==
  (pc = "constructed" /\ call.method = "removeEmptyObservations")
    => call.raised = "none" /\ dataset = call.arg

RangeIndex(frame) == \A k \in 1..Len(frame) : frame[k].label = k - 1

\* C3: construction leaves the raw table as it was passed in, and the filtered
\* table has its rows numbered 0, 1, 2, ...
C3_RawTableUnchanged ==
  AfterInit => dataset_raw = raw0 /\ RangeIndex(dataset)

HasNotFound(frame) ==
  \E k \in 1..Len(frame) : ~isna(frame[k].row.district) /\ frame[k].row.district.v = NotFound

\* C4: getDistrictCounts does not fail on a filtered table, its result has no
\* "Not found" key, and without a "Not found" row the result is the count of
\* every district present.
C4_DistrictCountsNeverFail ==
  (pc = "constructed" /\ call.method = "getDistrictCounts")
    => /\ call.raised = "none"
       /\ NotFound \notin DOMAIN call.ret
       /\ ~HasNotFound(dataset) => call.ret = value_counts(dataset)

\* the email addresses that are present, in row order
RECURSIVE PresentEmails(_)
PresentEmails(frame) ==
  IF frame = <<>> THEN <<>>
  ELSE (IF isna(Head(frame).row.email_address) THEN <<>>
        ELSE <<Head(frame).row.email_address.v>>) \o PresentEmails(Tail(frame))

Positions(email, c) == {p \in 1..Len(email) : email[p] = c}
SetMin(S) == CHOOSE x \in S : \A y \in S : x <= y
SetMax(S) == CHOOSE x \in S : \A y \in S : y <= x

\* an "@" followed, somewhere, by a "."
HasAtThenDot(email) ==
  \E p \in Positions(email, "@") : \E q \in Positions(email, ".") : p < q

SingleLine(email) == Positions(email, "\n") = {}

FirstAt(email) == SetMin(Positions(email, "@"))
DotsAfterFirstAt(email) == {q \in Positions(email, ".") : q > FirstAt(email)}

BetweenAtAndFirstDot(email) ==
  SubSeq(email, FirstAt(email) + 1, SetMin(DotsAfterFirstAt(email)) - 1)
BetweenAtAndLastDot(email) ==
  SubSeq(email, FirstAt(email) + 1, SetMax(DotsAfterFirstAt(email)) - 1)

EmailsCalled == pc = "constructed" /\ call.method = "getEmailProvidersCounts"
EmailsCounted == EmailsCalled /\ call.raised = "none"

\* C5 as stated: every provider extracted from an address with an "@" followed
\* by a "." is the text between the "@" and the first "." after it.
C5_ProviderEndsAtFirstDot ==
  EmailsCalled =>
    LET emails == PresentEmails(dataset)
    IN \A k \in 1..Len(call.email_providers) :
         (SingleLine(emails[k]) /\ HasAtThenDot(emails[k]))
           => call.email_providers[k] = BetweenAtAndFirstDot(emails[k])

\* C5 amended: every provider extracted from an address without a line break
\* that has an "@" followed by a "." is the text between the first "@" and the
\* last "." after it.
C5_ProviderEndsAtLastDot ==
  EmailsCalled =>
    LET emails == PresentEmails(dataset)
    IN \A k \in 1..Len(call.email_providers) :
         (SingleLine(emails[k]) /\ HasAtThenDot(emails[k]))
           => call.email_providers[k] = BetweenAtAndLastDot(emails[k])

\* an address with two dots after its "@" was counted
C5_Witness ==
  /\ EmailsCounted
  /\ \E k \in 1..Len(PresentEmails(dataset)) :
       LET email == PresentEmails(dataset)[k]
       IN /\ SingleLine(email)
          /\ HasAtThenDot(email)
          /\ Cardinality(DotsAfterFirstAt(email)) >= 2
          /\ "." \in {call.email_providers[k][j] : j \in 1..Len(call.email_providers[k])}

RECURSIVE MatchingProviders(_)
MatchingProviders(emails) ==
  IF emails = <<>> THEN <<>>
  ELSE (IF re_search(Head(emails)).found THEN <<Provider(re_search(Head(emails)).value)>>
        ELSE <<>>) \o MatchingProviders(Tail(emails))

\* C6: an address without a match is skipped: getEmailProvidersCounts does not
\* fail and counts the providers of the other rows.
C6_NoMatchSkipped ==
  (pc = "constructed" /\ call.method = "getEmailProvidersCounts")
    => /\ call.raised = "none"
       /\ call.email_providers = MatchingProviders(PresentEmails(dataset))

HoursCalled == pc = "constructed" /\ call.method = "getArrayOfSumsOfOpeningHoursSpans"

RECURSIVE SumPresent(_)
SumPresent(values) ==
  IF values = <<>> THEN 0
  ELSE (IF Head(values).t = "None" THEN 0 ELSE Head(values).v) + SumPresent(Tail(values))

\* C7: computing the sums never fails, and a row whose present durations sum
\* to 0 is reported as missing.
C7_ZeroSumIsMissing ==
  HoursCalled =>
    /\ call.raised = "none"
    /\ \A k \in 1..Len(dataset) :
         LET span == dataset[k].row.opening_hours_span
         IN (~isna(span) /\ SumPresent(span.v) = 0) => call.ret[k] = NaN

\* C8: the sums array has one entry per row of the filtered table, a missing
\* marker where the duration mapping is absent.
C8_OneEntryPerRow ==
  HoursCalled =>
    /\ call.raised = "none"
    /\ Len(call.ret) = Len(dataset)
    /\ \A k \in 1..Len(dataset) :
         isna(dataset[k].row.opening_hours_span) => call.ret[k] = NaN

Frequency(list, x) == Cardinality({k \in 1..Len(list) : list[k] = x})
SeenOnce(list) == {list[k] : k \in {j \in 1..Len(list) : Frequency(list, list[j]) = 1}}
ValueOf(items, key) == items[CHOOSE k \in 1..Len(items) : items[k][1] = key][2]

\* C9: in the returned mapping "Own domain" is the number of distinct
\* providers seen exactly once, and the entries ascend by count.
C9_OwnDomainCountsSingles ==
  EmailsCounted =>
    /\ OwnDomain \in Keys(call.ret)
    /\ ValueOf(call.ret, OwnDomain) = Cardinality(SeenOnce(call.email_providers))
    /\ \A k \in 1..(Len(call.ret) - 1) : call.ret[k][2] <= call.ret[k + 1][2]

\* one provider was seen twice, another once
C9_Witness ==
  /\ EmailsCounted
  /\ ValueOf(call.ret, OwnDomain) = 1
  /\ \E k \in 1..Len(call.ret) : call.ret[k][2] = 2

\* C10: showRows gives the first N rows for an integer N >= 0, the last |N|
\* rows for an integer N < 0, and raises for an input that is not an integer.
C10_ShowRows ==
  (pc = "constructed" /\ call.method = "showRows") =>
    LET x == call.arg
    IN /\ x.t = "int" =>
            /\ call.raised = "none"
            /\ call.ret = IF x.v >= 0 THEN SubSeq(dataset, 1, Min2(x.v, Len(dataset)))
                          ELSE SubSeq(dataset, Len(dataset) - Min2(0 - x.v, Len(dataset)) + 1,
                                      Len(dataset))
       /\ (x.t = "float" /\ x.twice % 2 = 1) => call.raised = "ValueError"
       /\ (x.t = "str" /\ ~ParseInt(x.s).ok) => call.raised = "ValueError"
       /\ x.t = "None" => call.raised = "ValueError"
RatingsPrinted ==
  pc = "constructed" /\ call.method = "interpretReviewsAndRatings" /\ call.raised = "none"

\* the positions of the rows with at least one review
Reviewed(frame) == {k \in 1..Len(frame) : frame[k].row.review_count # 0}

\* C11: every rating statistic of the summary is taken over the rows with
\* review_count # 0 only: the mean, the lowest and the highest rating, and the
\* number of rows reported as attaining the lowest and the highest rating.
C11_RatingStatsExcludeZeroReviews ==
  RatingsPrinted =>
    LET rows == Reviewed(dataset)
        rated == {dataset[k].row.ratings : k \in rows}
    IN /\ call.mean = MeanHundredths(available_ratings(dataset))
       /\ call.lowest \in rated /\ \A x \in rated : call.lowest <= x
       /\ call.highest \in rated /\ \A x \in rated : x <= call.highest
       /\ call.lowest_count
            = Cardinality({k \in rows : dataset[k].row.ratings = call.lowest})
       /\ call.highest_count
            = Cardinality({k \in rows : dataset[k].row.ratings = call.highest})
====
